---- MODULE Spec2Model ----
(***************************************************************************)
(* RuntimeStore of the unified data management framework: the mapping of   *)
(* one UnifiedData (a runtime block plus a sequence of records) onto the   *)
(* entries of an ordered key-value engine, and the store's lifecycle.      *)
(* Source: src/framework/manager/store/runtime_store.cpp                   *)
(***************************************************************************)
EXTENDS Integers, Sequences, FiniteSets, TLC

(***************************************************************************)
(* Bounds of the model.                                                    *)
(***************************************************************************)
\* longest record sequence of a UnifiedData handed to Put
MaxRecords == 2
\* longest key list handed to DeleteBatch
MaxBatchKeys == 3
\* how many engine calls of one operation may report a failure
MaxFaults == 1
\* how many times Init may succeed on one RuntimeStore
MaxInits == 1
\* how many explicit Close calls a caller makes on one RuntimeStore
MaxCloseCalls == 2
\* a caller reuses its Summary object only while totalSize is at most this
MaxTotalSize == 3
\* how many Sync requests the engine accepts on one RuntimeStore
MaxSyncs == 2

(***************************************************************************)
(* Strings are sequences of characters, so that the engine's prefix scan   *)
(* and its key order work on characters as std::string / Key bytes do.     *)
(***************************************************************************)
Ord(c) ==
    CASE c = "/" -> 47
      [] c = "1" -> 49
      [] c = "2" -> 50
      [] c = ":" -> 58
      [] c = "a" -> 97
      [] c = "b" -> 98
      [] c = "c" -> 99
      [] c = "d" -> 100
      [] c = "f" -> 102
      [] c = "m" -> 109
      [] c = "u" -> 117

IsPrefix(p, s) == Len(p) <= Len(s) /\ SubSeq(s, 1, Len(p)) = p

\* byte-wise lexicographic order of two keys
StrLess(a, b) ==
    \/ Len(a) < Len(b) /\ IsPrefix(a, b)
    \/ \E i \in 1..Len(a) :
          /\ i <= Len(b)
          /\ SubSeq(a, 1, i - 1) = SubSeq(b, 1, i - 1)
          /\ Ord(a[i]) < Ord(b[i])

\* std::count(keyStr.begin(), keyStr.end(), '/')
CountSlash(s) == Cardinality({i \in 1..Len(s) : s[i] = "/"})

DATA_PREFIX == <<"u", "d", "m", "f", ":", "/", "/">>
SLASH_COUNT_IN_KEY == 4

(***************************************************************************)
(* Status codes.                                                           *)
(***************************************************************************)
E_OK == "E_OK"
E_INVALID_PARAMETERS == "E_INVALID_PARAMETERS"
E_UNKNOWN == "E_UNKNOWN"
E_DB_ERROR == "E_DB_ERROR"

(***************************************************************************)
(* The data the callers hand in.  Two group keys, the first a plain        *)
(* character prefix of the second; records with uid, kind and size.        *)
(***************************************************************************)
KeyA == DATA_PREFIX \o <<"a", "/", "b", "/", "c">>
KeyB == DATA_PREFIX \o <<"a", "/", "b", "/", "c", "d">>
UnifiedKeys == {KeyA, KeyB}

\* keys handed to Get, GetSummary, Delete and DeleteBatch
QueryKeys == UnifiedKeys \cup {DATA_PREFIX}
\* prefixes handed to GetDatas
DataPrefixes == {DATA_PREFIX, KeyA, KeyB}

\* a null std::shared_ptr<UnifiedRecord>
NullRecord == [uid |-> <<>>, type |-> "NULL", size |-> 0, valid |-> FALSE]
IsNull(record) == record.type = "NULL"

\* valid: whether the codec can marshal the record
Records ==
    { [uid |-> <<"1">>, type |-> "TEXT", size |-> 1, valid |-> TRUE],
      [uid |-> <<"2">>, type |-> "SYSTEM_DEFINED_FORM", size |-> 2, valid |-> TRUE],
      [uid |-> <<"2">>, type |-> "TEXT", size |-> 1, valid |-> FALSE] }

RecordSeqs == UNION {[1..n -> Records \cup {NullRecord}] : n \in 0..MaxRecords}

\* the runtime of a default-constructed UnifiedData
NoRuntime == [key |-> <<>>, createTime |-> 0, valid |-> TRUE]
\* valid: whether the codec can marshal the runtime block
Runtimes ==
    { [key |-> KeyA, createTime |-> 1, valid |-> TRUE],
      [key |-> KeyB, createTime |-> 2, valid |-> TRUE],
      [key |-> KeyB, createTime |-> 2, valid |-> FALSE] }

EmptyData == [runtime |-> NoRuntime, records |-> <<>>]
UnifiedDatas == [runtime : Runtimes, records : RecordSeqs]

\* UnifiedKey::GetUnifiedKey: the group key is the runtime block's key field
GetUnifiedKey(runtime) == runtime.key

(***************************************************************************)
(* Codec (TLVUtil): a tagged byte string, and its reader.                  *)
(***************************************************************************)
WritingRecord(record) ==
    [ok |-> record.valid, bytes |-> <<"REC", record.type, record.uid, record.size>>]

WritingRuntime(runtime) ==
    [ok |-> runtime.valid, bytes |-> <<"RT", runtime.key, runtime.createTime>>]

ReadingRecord(bytes) ==
    IF bytes[1] = "REC"
    THEN [ok |-> TRUE,
          val |-> [uid |-> bytes[3], type |-> bytes[2], size |-> bytes[4], valid |-> TRUE]]
    ELSE [ok |-> FALSE, val |-> NullRecord]

ReadingRuntime(bytes) ==
    IF bytes[1] = "RT"
    THEN [ok |-> TRUE, val |-> [key |-> bytes[2], createTime |-> bytes[3], valid |-> TRUE]]
    ELSE [ok |-> FALSE, val |-> NoRuntime]

(***************************************************************************)
(* KV engine (KvStoreNbDelegate): a map from keys to values; each call     *)
(* either succeeds or reports a non-success status and changes nothing.    *)
(***************************************************************************)
RECURSIVE SortKeys(_)
SortKeys(S) ==
    IF S = {} THEN <<>>
    ELSE LET m == CHOOSE x \in S : \A y \in S \ {x} : StrLess(x, y)
         IN  <<m>> \o SortKeys(S \ {m})

\* every key an entry of the model can have, in the engine's key order
AllKeys ==
    UnifiedKeys \cup {k \o <<"/">> \o r.uid : k \in UnifiedKeys, r \in Records}
KeyOrder == SortKeys(AllKeys)

RECURSIVE ApplyPuts(_, _)
ApplyPuts(store, entries) ==
    IF entries = <<>> THEN store
    ELSE LET e == Head(entries)
             next == [k \in DOMAIN store \cup {e.key} |->
                        IF k = e.key THEN e.value ELSE store[k]]
         IN  ApplyPuts(next, Tail(entries))

\* DBStatus values the engine reports
DB_OK == "OK"
DB_NOT_FOUND == "NOT_FOUND"
DB_ERROR == "DB_ERROR"

\* PutBatch(entries): atomic; a later entry with the same key wins
EnginePutBatch(store, entries, ok) ==
    [status |-> IF ok THEN DB_OK ELSE DB_ERROR,
     store |-> IF ok THEN ApplyPuts(store, entries) ELSE store]

\* DeleteBatch(keys): atomic
EngineDeleteBatch(store, keys, ok) ==
    [status |-> IF ok THEN DB_OK ELSE DB_ERROR,
     store |-> IF ok
               THEN [k \in DOMAIN store \ {keys[i] : i \in 1..Len(keys)} |-> store[k]]
               ELSE store]

\* GetEntries(Query::Select().PrefixKey(prefix), entries): the entries whose
\* key starts with prefix, in key order; NOT_FOUND when there is none
EngineGetEntries(store, prefix, ok) ==
    LET Match(k) == k \in DOMAIN store /\ IsPrefix(prefix, k)
        keys == SelectSeq(KeyOrder, Match)
    IN  [status |-> IF ~ok THEN DB_ERROR ELSE IF keys = <<>> THEN DB_NOT_FOUND ELSE DB_OK,
         entries |-> IF ok
                     THEN [i \in 1..Len(keys) |-> [key |-> keys[i], value |-> store[keys[i]]]]
                     ELSE <<>>]

\* the engine calls of one operation that fail, by their place in the operation
FaultSets(n) == {f \in SUBSET (1..n) : Cardinality(f) <= MaxFaults}
Ok(faults, i) == i \notin faults

\* one engine call as the operations log it
CalledGetEntries(prefix, status) == [fn |-> "GetEntries", prefix |-> prefix, status |-> status]
CalledPutBatch(entries, status) == [fn |-> "PutBatch", entries |-> entries, status |-> status]
CalledDeleteBatch(keys, status) == [fn |-> "DeleteBatch", keys |-> keys, status |-> status]
CalledSync(devices, status) == [fn |-> "Sync", devices |-> devices, status |-> status]

(***************************************************************************)
(* RuntimeStore operations.  Each takes the engine's store and the outcome *)
(* of every engine call it may make, and yields its status, the store it   *)
(* leaves and the engine calls it made.                                    *)
(***************************************************************************)

\* GetEntries, from the engine's answer on: its status is logged and dropped
GetEntriesResult(dataPrefix, r) ==
    [entries |-> r.entries, calls |-> <<CalledGetEntries(dataPrefix, r.status)>>]

\* RuntimeStore::GetEntries
GetEntries(store, dataPrefix, okScan) ==
    GetEntriesResult(dataPrefix, EngineGetEntries(store, dataPrefix, okScan))

\* the entry Put builds for one record
RecordEntry(unifiedKey, record, w) ==
    [key |-> unifiedKey \o <<"/">> \o record.uid, value |-> w.bytes]

\* Put's loop over unifiedData.GetRecords()
RECURSIVE PutRecords(_, _, _)
PutRecords(unifiedKey, records, entries) ==
    IF records = <<>> THEN [status |-> E_OK, entries |-> entries]
    ELSE IF IsNull(Head(records)) THEN PutRecords(unifiedKey, Tail(records), entries)
    ELSE IF ~WritingRecord(Head(records)).ok
    THEN [status |-> E_INVALID_PARAMETERS, entries |-> entries]
    ELSE PutRecords(unifiedKey, Tail(records),
             Append(entries,
                    RecordEntry(unifiedKey, Head(records), WritingRecord(Head(records)))))

\* the status Put derives from PutBatch's
PutStatus(dbStatus) == IF dbStatus # DB_OK THEN E_DB_ERROR ELSE E_OK

\* Put, from the PutBatch call on
PutWritten(entries, e) ==
    [status |-> PutStatus(e.status), store |-> e.store,
     calls |-> <<CalledPutBatch(entries, e.status)>>]

\* Put, from the runtime entry on
PutBatched(store, entries, okPut) ==
    PutWritten(entries, EnginePutBatch(store, entries, okPut))

\* PutMarshalled, had it written the entries marshalled before a failure
PutMarshalledPartly(store, unifiedKey, r, w, okPut) ==
    IF r.status # E_OK
    THEN [status |-> r.status, store |-> PutBatched(store, r.entries, okPut).store,
          calls |-> PutBatched(store, r.entries, okPut).calls]
    ELSE IF ~w.ok THEN [status |-> E_UNKNOWN, store |-> store, calls |-> <<>>]
    ELSE PutBatched(store, Append(r.entries, [key |-> unifiedKey, value |-> w.bytes]), okPut)

\* Put, once the records are marshalled
PutMarshalled(store, unifiedKey, r, w, okPut) ==
    IF r.status # E_OK THEN [status |-> r.status, store |-> store, calls |-> <<>>]
    ELSE IF ~w.ok THEN [status |-> E_UNKNOWN, store |-> store, calls |-> <<>>]
    ELSE PutBatched(store, Append(r.entries, [key |-> unifiedKey, value |-> w.bytes]), okPut)

\* RuntimeStore::Put
Put(store, unifiedData, okPut) ==
    PutMarshalled(store, GetUnifiedKey(unifiedData.runtime),
                  PutRecords(GetUnifiedKey(unifiedData.runtime), unifiedData.records, <<>>),
                  WritingRuntime(unifiedData.runtime), okPut)

\* Get's loop body for the entry at the group key
GetRuntimeEntry(unifiedData, rt) ==
    IF ~rt.ok THEN [status |-> E_UNKNOWN, data |-> unifiedData]
    ELSE [status |-> E_OK, data |-> [unifiedData EXCEPT !.runtime = rt.val]]

\* Get's loop body for any other entry
GetRecordEntry(unifiedData, rec) ==
    IF ~rec.ok THEN [status |-> E_UNKNOWN, data |-> unifiedData]
    ELSE [status |-> E_OK, data |-> [unifiedData EXCEPT !.records = Append(@, rec.val)]]

\* Get's loop body
GetStep(key, entry, unifiedData) ==
    IF entry.key = key
    THEN GetRuntimeEntry(unifiedData, ReadingRuntime(entry.value))
    ELSE GetRecordEntry(unifiedData, ReadingRecord(entry.value))

\* GetLoop, had it gone on to the next entry after a failed decode
RECURSIVE GetLoopOn(_, _, _)
GetLoopOn(key, entries, acc) ==
    IF entries = <<>> THEN acc
    ELSE GetLoopOn(key, Tail(entries),
             [status |-> IF acc.status # E_OK THEN acc.status
                         ELSE GetStep(key, Head(entries), acc.data).status,
              data |-> GetStep(key, Head(entries), acc.data).data])

\* Get's loop over the scanned entries
RECURSIVE GetLoop(_, _, _)
GetLoop(key, entries, acc) ==
    IF entries = <<>> \/ acc.status # E_OK THEN acc
    ELSE GetLoop(key, Tail(entries), GetStep(key, Head(entries), acc.data))

\* Get, from the end of its loop on
GetLooped(r, g) == [status |-> r.status, data |-> r.data, calls |-> g.calls]

\* Get, from the scan on
GetScanned(key, unifiedData, g) ==
    IF g.entries = <<>>
    THEN [status |-> E_OK, data |-> unifiedData, calls |-> g.calls]
    ELSE GetLooped(GetLoop(key, g.entries, [status |-> E_OK, data |-> unifiedData]), g)

\* RuntimeStore::Get
Get(store, key, unifiedData, okScan) ==
    GetScanned(key, unifiedData, GetEntries(store, key, okScan))

\* the status Delete derives from the engine's DeleteBatch
DeleteStatus(dbStatus) == IF dbStatus # DB_OK THEN E_DB_ERROR ELSE E_OK

\* Delete, from the engine's DeleteBatch call on
DeleteDone(g, keys, e) ==
    [status |-> DeleteStatus(e.status), store |-> e.store,
     calls |-> g.calls \o <<CalledDeleteBatch(keys, e.status)>>]

\* Delete, from the collected keys on
DeleteKeys(store, g, keys, okDel) ==
    DeleteDone(g, keys, EngineDeleteBatch(store, keys, okDel))

\* Delete, from the scan on
DeleteScanned(store, g, okDel) ==
    IF g.entries = <<>>
    THEN [status |-> E_OK, store |-> store, calls |-> g.calls]
    ELSE DeleteKeys(store, g, [i \in 1..Len(g.entries) |-> g.entries[i].key], okDel)

\* RuntimeStore::Delete
Delete(store, key, okScan, okDel) ==
    DeleteScanned(store, GetEntries(store, key, okScan), okDel)

\* Update, from the Put call on
UpdatePut(d, p) ==
    IF p.status # E_OK
    THEN [status |-> E_DB_ERROR, store |-> p.store, calls |-> d.calls \o p.calls]
    ELSE [status |-> E_OK, store |-> p.store, calls |-> d.calls \o p.calls]

\* UpdateDeleted, had it gone on to Put after a failed Delete
UpdateDeletedAnyway(d, unifiedData, okPut) ==
    UpdatePut(d, Put(d.store, unifiedData, okPut))

\* Update, from the result of its Delete call on
UpdateDeleted(d, unifiedData, okPut) ==
    IF d.status # E_OK
    THEN [status |-> E_DB_ERROR, store |-> d.store, calls |-> d.calls]
    ELSE UpdatePut(d, Put(d.store, unifiedData, okPut))

\* RuntimeStore::Update
Update(store, unifiedData, okScan, okDel, okPut) ==
    UpdateDeleted(Delete(store, unifiedData.runtime.key, okScan, okDel), unifiedData, okPut)


\* Clear, from the Delete call on
ClearResult(d) ==
    [status |-> IF d.status # E_DB_ERROR THEN E_OK ELSE E_DB_ERROR,
     store |-> d.store, calls |-> d.calls]

\* RuntimeStore::Clear
Clear(store, okScan, okDel) == ClearResult(Delete(store, DATA_PREFIX, okScan, okDel))

\* one Delete call of DeleteBatch, added to what the loop has done so far
DeleteBatchCall(acc, timeoutKey, d) ==
    [status |-> d.status, store |-> d.store, calls |-> acc.calls \o d.calls,
     deletes |-> Append(acc.deletes, [key |-> timeoutKey, status |-> d.status])]

\* DeleteBatchStep, had it gone on after a failed Delete
DeleteBatchStepOn(acc, timeoutKey, oc) ==
    DeleteBatchCall(acc, timeoutKey, Delete(acc.store, timeoutKey, oc.scan, oc.del))

\* DeleteBatch's loop body: status = status == E_OK ? Delete(timeoutKey) : status
DeleteBatchStep(acc, timeoutKey, oc) ==
    IF acc.status = E_OK
    THEN DeleteBatchCall(acc, timeoutKey, Delete(acc.store, timeoutKey, oc.scan, oc.del))
    ELSE acc

RECURSIVE DeleteBatchLoop(_, _, _, _)
DeleteBatchLoop(acc, timeoutKeys, ocs, i) ==
    IF i > Len(timeoutKeys) THEN acc
    ELSE DeleteBatchLoop(DeleteBatchStep(acc, timeoutKeys[i], ocs[i]), timeoutKeys, ocs, i + 1)

\* RuntimeStore::DeleteBatch; deletes lists the Delete calls it made
DeleteBatch(store, timeoutKeys, ocs) ==
    IF timeoutKeys = <<>>
    THEN [status |-> E_OK, store |-> store, calls |-> <<>>, deletes |-> <<>>]
    ELSE DeleteBatchLoop([status |-> E_OK, store |-> store, calls |-> <<>>,
                          deletes |-> <<>>], timeoutKeys, ocs, 1)

\* IsGroupKey, had it taken every key with four '/' or more
IsGroupKeyOrMember(keyStr) == CountSlash(keyStr) >= SLASH_COUNT_IN_KEY

\* GetDatas's test of an entry's key
IsGroupKey(keyStr) == CountSlash(keyStr) = SLASH_COUNT_IN_KEY

\* one inner Get of GetDatas, added to what the loop has collected so far
GetDatasCall(acc, keyStr, g) ==
    [datas |-> Append(acc.datas, g.data), calls |-> acc.calls \o g.calls,
     gets |-> Append(acc.gets, [key |-> keyStr, status |-> g.status])]

\* GetDatas's loop body; gets lists the inner Get calls and their status
GetDatasStep(acc, store, entry, okInner) ==
    IF IsGroupKey(entry.key)
    THEN GetDatasCall(acc, entry.key, Get(store, entry.key, EmptyData, okInner[entry.key]))
    ELSE acc

RECURSIVE GetDatasLoop(_, _, _, _)
GetDatasLoop(acc, store, entries, okInner) ==
    IF entries = <<>> THEN acc
    ELSE GetDatasLoop(GetDatasStep(acc, store, Head(entries), okInner),
                      store, Tail(entries), okInner)

\* GetDatas, from the scan on
GetDatasScanned(store, g, okInner) ==
    IF g.entries = <<>> THEN [datas |-> <<>>, calls |-> g.calls, gets |-> <<>>]
    ELSE GetDatasLoop([datas |-> <<>>, calls |-> g.calls, gets |-> <<>>],
                      store, g.entries, okInner)

\* RuntimeStore::GetDatas
GetDatas(store, dataPrefix, okScan, okInner) ==
    GetDatasScanned(store, GetEntries(store, dataPrefix, okScan), okInner)

\* UD_TYPE_MAP: the name of a record kind
UD_TYPE_MAP(type) ==
    CASE type = "TEXT" -> "Text"
      [] type = "SYSTEM_DEFINED_FORM" -> "SystemDefinedType.Form"

\* UnifiedRecord::GetSize
GetSize(record) == record.size

\* a default-constructed Summary
EmptySummary == [summary |-> <<>>, totalSize |-> 0]

\* GetSummary's loop body, for a record of kind name and size recordSize
SummaryAdd(summary, name, recordSize) ==
    [summary |-> [k \in DOMAIN summary.summary \cup {name} |->
                    IF k # name THEN summary.summary[k]
                    ELSE IF name \notin DOMAIN summary.summary THEN recordSize
                    ELSE summary.summary[name] + recordSize],
     totalSize |-> summary.totalSize + recordSize]

SummaryStep(summary, record) ==
    SummaryAdd(summary, UD_TYPE_MAP(record.type), GetSize(record))

RECURSIVE SummaryLoop(_, _)
SummaryLoop(summary, records) ==
    IF records = <<>> THEN summary
    ELSE SummaryLoop(SummaryStep(summary, Head(records)), Tail(records))

\* GetSummary, from the Get call on
GetSummaryResult(summary, g) ==
    IF g.status # E_OK
    THEN [status |-> E_DB_ERROR, summary |-> summary, calls |-> g.calls]
    ELSE [status |-> E_OK, summary |-> SummaryLoop(summary, g.data.records),
          calls |-> g.calls]

\* RuntimeStore::GetSummary
GetSummary(store, key, summary, okScan) ==
    GetSummaryResult(summary, Get(store, key, EmptyData, okScan))

\* kvStore_->Sync: an accepted request leaves a completion callback pending
EngineSync(pending, ok) ==
    IF ok THEN [status |-> DB_OK, pending |-> Append(pending, "pending")]
    ELSE [status |-> DB_ERROR, pending |-> pending]

\* the status Sync derives from the engine's
SyncStatus(dbStatus) == IF dbStatus # DB_OK THEN E_DB_ERROR ELSE E_OK

\* Sync, from the engine call on
SyncRequested(devices, e) ==
    [status |-> SyncStatus(e.status), pending |-> e.pending,
     calls |-> <<CalledSync(devices, e.status)>>]

\* RuntimeStore::Sync
Sync(pending, devices, okSync) == SyncRequested(devices, EngineSync(pending, okSync))

\* OnComplete, had it called the engine through kvStore_
OnCompleteThroughStore(eng, handle, result) ==
    [eng EXCEPT !.aborted = handle \notin eng.opened]

\* the completion callback Sync hands to the engine: it logs and returns
OnComplete(eng, handle, result) == eng

(***************************************************************************)
(* The store handle.  kvStore_ is 0 for a null pointer, else the handle    *)
(* GetKvStore gave out.  The engine keeps the set of open handles and a    *)
(* log of the handles passed to CloseKvStore.  Passing a handle that is    *)
(* already released is undefined: the process may abort there.             *)
(***************************************************************************)
\* delegateManager_.CloseKvStore(delegate)
CloseKvStore(eng, delegate, abort) ==
    IF eng.aborted THEN eng
    ELSE [opened |-> eng.opened \ {delegate},
          closeLog |-> Append(eng.closeLog, delegate),
          aborted |-> abort /\ delegate # 0 /\ delegate \notin eng.opened]

\* RuntimeStore::Close
Close(eng, handle, abort) == CloseKvStore(eng, handle, abort)

\* the deleter Init gives the shared handle
Release(eng, delegate, abort) ==
    IF delegate = 0 THEN eng ELSE CloseKvStore(eng, delegate, abort)

\* RuntimeStore::~RuntimeStore, then the destruction of the member kvStore_
Destructor(eng, handle, abort1, abort2) ==
    Release(Close(eng, handle, abort1), handle, abort2)

(***************************************************************************)
(* State.                                                                  *)
(***************************************************************************)
VARIABLES
    kvdb,       \* the engine's entries of this store id: key -> value
    kvStore_,   \* RuntimeStore::kvStore_
    handles,    \* how many handles GetKvStore has given out
    opened,     \* the handles the engine holds open
    closeLog,   \* the handles passed to CloseKvStore, in call order
    closes,     \* how many times the caller has called Close
    phase,      \* "constructed", "destroyed" or "aborted"
    syncs,      \* the completion callbacks of the accepted Sync requests:
                \* "pending", or the phase in which the callback ran
    call,       \* the Update or Delete call a second thread is in the middle of
    last        \* the last call: operation, argument, status, output, engine calls

vars == <<kvdb, kvStore_, handles, opened, closeLog, closes, phase, syncs, call, last>>

\* what the data operations leave alone
life == <<kvStore_, handles, opened, closeLog, closes, phase, syncs, call>>

\* what the lifecycle calls leave alone
aside == <<syncs, call>>

\* no call in progress on the second thread
Idle ==
    [op |-> "none", pc |-> "idle", unifiedData |-> EmptyData, key |-> <<>>,
     g |-> [entries |-> <<>>, calls |-> <<>>],
     res |-> [status |-> E_OK, calls |-> <<>>],
     old |-> <<>>]

\* the record of a call of the lifecycle
Did(op) == [op |-> op]

Init ==
    /\ kvdb = <<>>
    /\ kvStore_ = 0
    /\ handles = 0
    /\ opened = {}
    /\ closeLog = <<>>
    /\ closes = 0
    /\ phase = "constructed"
    /\ syncs = <<>>
    /\ call = Idle
    /\ last = Did("Construct")

Eng == [opened |-> opened, closeLog |-> closeLog, aborted |-> FALSE]

SetEng(eng, next) ==
    /\ opened' = eng.opened
    /\ closeLog' = eng.closeLog
    /\ phase' = IF eng.aborted THEN "aborted" ELSE next

\* RuntimeStore::Init; a handle replaced in kvStore_ goes through its deleter
InitStore ==
    /\ phase = "constructed"
    /\ \E ok \in BOOLEAN, abort \in BOOLEAN :
         IF ok
         THEN /\ handles < MaxInits
              /\ handles' = handles + 1
              /\ kvStore_' = handles + 1
              /\ SetEng(Release([Eng EXCEPT !.opened = @ \cup {handles + 1}],
                                kvStore_, abort), "constructed")
              /\ last' = [op |-> "Init", ok |-> TRUE]
              /\ UNCHANGED <<kvdb, closes, aside>>
         ELSE /\ last' = [op |-> "Init", ok |-> FALSE]
              /\ UNCHANGED <<kvdb, life>>

CloseStore ==
    /\ phase = "constructed"
    /\ closes < MaxCloseCalls
    /\ closes' = closes + 1
    /\ \E abort \in BOOLEAN : SetEng(Close(Eng, kvStore_, abort), "constructed")
    /\ last' = Did("Close")
    /\ UNCHANGED <<kvdb, kvStore_, handles, aside>>

Destroy ==
    /\ phase = "constructed"
    /\ \E abort1 \in BOOLEAN, abort2 \in BOOLEAN :
         SetEng(Destructor(Eng, kvStore_, abort1, abort2), "destroyed")
    /\ last' = Did("Destroy")
    /\ UNCHANGED <<kvdb, kvStore_, handles, closes, aside>>

\* kvStore_-> on a null pointer, or on a handle the engine has released
Fault ==
    /\ phase = "constructed"
    /\ kvStore_ \notin opened
    /\ phase' = "aborted"
    /\ last' = Did("Fault")
    /\ UNCHANGED <<kvdb, kvStore_, handles, opened, closeLog, closes, aside>>

\* a data operation reaches the engine through kvStore_
CanCall == phase = "constructed" /\ kvStore_ # 0

\* what a call leaves: the engine's store and the record of the call
PutReturns(op, unifiedData, r) ==
    /\ kvdb' = r.store
    /\ last' = [op |-> op, unifiedData |-> unifiedData, status |-> r.status, calls |-> r.calls]

DeleteReturns(key, r) ==
    /\ kvdb' = r.store
    /\ last' = [op |-> "Delete", key |-> key, status |-> r.status, calls |-> r.calls]

PutOf(datas) ==
    /\ CanCall
    /\ \E unifiedData \in datas, faults \in FaultSets(1) :
         PutReturns("Put", unifiedData, Put(kvdb, unifiedData, Ok(faults, 1)))
    /\ UNCHANGED life

GetReturns(key, r) ==
    last' = [op |-> "Get", key |-> key, status |-> r.status, data |-> r.data, calls |-> r.calls]

GetOf(keys) ==
    /\ CanCall
    /\ \E key \in keys, faults \in FaultSets(1) :
         GetReturns(key, Get(kvdb, key, EmptyData, Ok(faults, 1)))
    /\ UNCHANGED <<kvdb, life>>

DeleteOf(keys) ==
    /\ CanCall
    /\ \E key \in keys, faults \in FaultSets(2) :
         DeleteReturns(key, Delete(kvdb, key, Ok(faults, 1), Ok(faults, 2)))
    /\ UNCHANGED life

UpdateOf(datas) ==
    /\ CanCall
    /\ \E unifiedData \in datas, faults \in FaultSets(3) :
         PutReturns("Update", unifiedData,
                    Update(kvdb, unifiedData, Ok(faults, 1), Ok(faults, 2), Ok(faults, 3)))
    /\ UNCHANGED life

KeyLists == UNION {[1..n -> UnifiedKeys] : n \in 0..MaxBatchKeys}

\* the outcomes of the scan and of the batch delete for the i-th key of a list
Outcomes(faults, n) == [i \in 1..n |-> [scan |-> Ok(faults, 2 * i - 1), del |-> Ok(faults, 2 * i)]]

DeleteBatchReturns(timeoutKeys, r) ==
    /\ kvdb' = r.store
    /\ last' = [op |-> "DeleteBatch", timeoutKeys |-> timeoutKeys, status |-> r.status,
                calls |-> r.calls, deletes |-> r.deletes]

DoDeleteBatch ==
    /\ CanCall
    /\ \E timeoutKeys \in KeyLists :
         \E faults \in FaultSets(2 * Len(timeoutKeys)) :
            DeleteBatchReturns(timeoutKeys,
                DeleteBatch(kvdb, timeoutKeys, Outcomes(faults, Len(timeoutKeys))))
    /\ UNCHANGED life

ClearReturns(r) ==
    /\ kvdb' = r.store
    /\ last' = [op |-> "Clear", status |-> r.status, calls |-> r.calls]

DoClear ==
    /\ CanCall
    /\ \E faults \in FaultSets(2) :
         ClearReturns(Clear(kvdb, Ok(faults, 1), Ok(faults, 2)))
    /\ UNCHANGED life

GetDatasReturns(dataPrefix, r) ==
    last' = [op |-> "GetDatas", dataPrefix |-> dataPrefix, datas |-> r.datas,
             calls |-> r.calls, gets |-> r.gets]

\* the outcome of the scan of the inner Get, by the key it is called with
InnerOutcomes(faults) ==
    [k \in AllKeys |-> \A i \in 1..Len(KeyOrder) : KeyOrder[i] = k => Ok(faults, 1 + i)]

DoGetDatas ==
    /\ CanCall
    /\ \E dataPrefix \in DataPrefixes, faults \in FaultSets(1 + Len(KeyOrder)) :
         GetDatasReturns(dataPrefix,
             GetDatas(kvdb, dataPrefix, Ok(faults, 1), InnerOutcomes(faults)))
    /\ UNCHANGED <<kvdb, life>>

\* passed: the Summary the caller passed in
GetSummaryReturns(key, summary, r) ==
    last' = [op |-> "GetSummary", key |-> key, passed |-> summary, status |-> r.status,
             summary |-> r.summary, calls |-> r.calls]

GetSummaryOn(key, summary, okScan) ==
    GetSummaryReturns(key, summary, GetSummary(kvdb, key, summary, okScan))

\* the caller passes a new Summary, or the one its last GetSummary filled
DoGetSummary ==
    /\ CanCall
    /\ \E key \in UnifiedKeys, faults \in FaultSets(1), reuse \in BOOLEAN :
         /\ reuse => last.op = "GetSummary" /\ last.summary.totalSize <= MaxTotalSize
         /\ GetSummaryOn(key, IF reuse THEN last.summary ELSE EmptySummary, Ok(faults, 1))
    /\ UNCHANGED <<kvdb, life>>

DoPut == PutOf(UnifiedDatas)
DoGet == GetOf(QueryKeys)
DoDelete == DeleteOf(QueryKeys)
\* Update is called with record sequences one shorter than Put's longest
DoUpdate == UpdateOf({ud \in UnifiedDatas : Len(ud.records) < MaxRecords})

(***************************************************************************)
(* Spec: the data operations of a store from its construction to its       *)
(* destruction.                                                            *)
(***************************************************************************)
Next ==
    \/ InitStore
    \/ Destroy
    \/ Fault
    \/ DoPut
    \/ DoGet
    \/ DoDelete
    \/ DoUpdate
    \/ DoDeleteBatch
    \/ DoClear
    \/ DoGetDatas
    \/ DoGetSummary

Spec == Init /\ [][Next]_vars

(***************************************************************************)
(* SpecLife: the lifecycle of the store, Close calls included, with one    *)
(* object put, read and deleted.                                           *)
(***************************************************************************)
LifeDatas == {ud \in UnifiedDatas : ud.runtime.valid /\ Len(ud.records) = 1
                                    /\ ud.records[1].valid}

LifePut == PutOf(LifeDatas)
LifeGet == GetOf(UnifiedKeys)
LifeDelete == DeleteOf(UnifiedKeys)

NextLife ==
    \/ InitStore
    \/ CloseStore
    \/ Destroy
    \/ Fault
    \/ LifePut
    \/ LifeGet
    \/ LifeDelete

SpecLife == Init /\ [][NextLife]_vars

(***************************************************************************)
(* SpecSync: Sync requests and their completion callbacks, which the       *)
(* engine runs at any later time, also after Close and after destruction.  *)
(***************************************************************************)
DeviceLists == {<<>>, <<"device1">>}

SyncReturns(devices, r) ==
    /\ syncs' = r.pending
    /\ last' = [op |-> "Sync", devices |-> devices, status |-> r.status, calls |-> r.calls]

DoSync ==
    /\ CanCall
    /\ Len(syncs) < MaxSyncs
    /\ \E devices \in DeviceLists, okSync \in BOOLEAN :
         SyncReturns(devices, Sync(syncs, devices, okSync))
    /\ UNCHANGED <<kvdb, kvStore_, handles, opened, closeLog, closes, phase, call>>

\* the engine runs the completion callback of an accepted request
SyncComplete ==
    /\ phase # "aborted"
    /\ \E i \in 1..Len(syncs), result \in {DB_OK, DB_ERROR} :
         /\ syncs[i] = "pending"
         /\ syncs' = [syncs EXCEPT ![i] = phase]
         /\ SetEng(OnComplete(Eng, kvStore_, result), phase)
    /\ UNCHANGED <<kvdb, kvStore_, handles, closes, call, last>>

NextSync ==
    \/ InitStore
    \/ CloseStore
    \/ Destroy
    \/ Fault
    \/ LifePut
    \/ DoSync
    \/ SyncComplete

SpecSync == Init /\ [][NextSync]_vars

(***************************************************************************)
(* Two threads.  RuntimeStore takes no lock, so while one thread is inside *)
(* Update or Delete, between two of its engine calls, another thread's     *)
(* call can run.  The second thread's call advances one engine call at a   *)
(* time: the scan of GetEntries, the DeleteBatch, the PutBatch, the        *)
(* return.                                                                 *)
(***************************************************************************)
\* the second thread enters Update(unifiedData) or Delete(key) and scans
Begin(op, unifiedData, key, okScan) ==
    /\ call' = [op |-> op, pc |-> "scanned", unifiedData |-> unifiedData, key |-> key,
                g |-> GetEntries(kvdb, key, okScan),
                res |-> [status |-> E_OK, calls |-> <<>>],
                old |-> kvdb]
    /\ UNCHANGED <<kvdb, kvStore_, handles, opened, closeLog, closes, phase, syncs, last>>

BeginUpdate ==
    /\ CanCall
    /\ call.pc = "idle"
    /\ \E unifiedData \in {ud \in UnifiedDatas : Len(ud.records) < MaxRecords},
          faults \in FaultSets(1) :
         Begin("Update", unifiedData, unifiedData.runtime.key, Ok(faults, 1))

BeginDelete ==
    /\ CanCall
    /\ call.pc = "idle"
    /\ \E key \in UnifiedKeys, faults \in FaultSets(1) :
         Begin("Delete", EmptyData, key, Ok(faults, 1))

\* what a step of the second thread's call leaves
Stepped(pc, r) ==
    /\ kvdb' = r.store
    /\ call' = [call EXCEPT !.pc = pc, !.res = [status |-> r.status, calls |-> r.calls]]
    /\ UNCHANGED <<kvStore_, handles, opened, closeLog, closes, phase, syncs, last>>

\* Delete, from its scan on, on the store as it is by now
StepDelete ==
    /\ CanCall
    /\ call.pc = "scanned"
    /\ \E faults \in FaultSets(1) :
         Stepped(IF call.op = "Update" THEN "deleted" ELSE "returning",
                 DeleteScanned(kvdb, call.g, Ok(faults, 1)))

\* Update, from the result of its Delete on, on the store as it is by now
StepPut ==
    /\ CanCall
    /\ call.pc = "deleted"
    /\ \E faults \in FaultSets(1) :
         Stepped("returning",
                 UpdateDeleted([status |-> call.res.status, store |-> kvdb,
                                calls |-> call.res.calls],
                               call.unifiedData, Ok(faults, 1)))

\* the second thread's call returns
StepReturn ==
    /\ call.pc = "returning"
    /\ call' = Idle
    /\ last' = IF call.op = "Update"
               THEN [op |-> "Update", unifiedData |-> call.unifiedData,
                     status |-> call.res.status, calls |-> call.res.calls]
               ELSE [op |-> "Delete", key |-> call.key,
                     status |-> call.res.status, calls |-> call.res.calls]
    /\ UNCHANGED <<kvdb, kvStore_, handles, opened, closeLog, closes, phase, syncs>>

(***************************************************************************)
(* SpecRead: one thread inside Update while another one reads; objects are *)
(* put only while no Update is in progress.                                *)
(***************************************************************************)
ReadPut == call.pc = "idle" /\ PutOf(LifeDatas)
ReadGet == GetOf(UnifiedKeys)

NextRead ==
    \/ InitStore
    \/ ReadPut
    \/ ReadGet
    \/ BeginUpdate
    \/ StepDelete
    \/ StepPut
    \/ StepReturn

SpecRead == Init /\ [][NextRead]_vars

(***************************************************************************)
(* SpecConc: one thread inside Delete while another one puts objects.      *)
(***************************************************************************)
ConcPut == PutOf(LifeDatas)

NextConc ==
    \/ InitStore
    \/ ConcPut
    \/ BeginDelete
    \/ StepDelete
    \/ StepReturn

SpecConc == Init /\ [][NextConc]_vars

(***************************************************************************)
(* What the claims speak of.                                               *)
(***************************************************************************)
\* the keys of store that start with prefix
Under(prefix, store) == {k \in DOMAIN store : IsPrefix(prefix, k)}

\* k is the runtime key of group or the key of one of its members
InGroup(group, k) == k = group \/ IsPrefix(group \o <<"/">>, k)

MemberKeys(group, store) == {k \in DOMAIN store : IsPrefix(group \o <<"/">>, k)}

NonNull(records) == SelectSeq(records, LAMBDA r : ~IsNull(r))

\* the engine calls of one kind among calls
CallsOf(fn, calls) == SelectSeq(calls, LAMBDA c : c.fn = fn)

Failed(calls) == \E i \in 1..Len(calls) : calls[i].status = DB_ERROR

RECURSIVE SumFun(_, _)
SumFun(f, D) ==
    IF D = {} THEN 0
    ELSE LET x == CHOOSE x \in D : TRUE IN f[x] + SumFun(f, D \ {x})

\* the sizes of the records stored as members of group, summed
StoredSizes(group, store) ==
    SumFun([k \in MemberKeys(group, store) |-> ReadingRecord(store[k]).val.size],
           MemberKeys(group, store))

(***************************************************************************)
(* C1  Round trip.  After Put(d) returned OK for a d with a non-empty      *)
(* record sequence, on a store holding no other entry under d's key, a Get *)
(* of d's key into an empty object returns OK with d's runtime block and   *)
(* d's records in d's order.  Stated for the most favourable d: no null    *)
(* record, distinct uids, and a prefix scan the engine answered.           *)
(***************************************************************************)
DistinctUids(records) ==
    \A i, j \in 1..Len(records) : records[i].uid = records[j].uid => i = j

C1_RoundTripKeepsOrder ==
    [][(/\ last.op = "Put" /\ last.status = E_OK
        /\ last.unifiedData.records # <<>>
        /\ NonNull(last.unifiedData.records) = last.unifiedData.records
        /\ DistinctUids(last.unifiedData.records)
        /\ \A k \in Under(last.unifiedData.runtime.key, kvdb) :
              \/ k = last.unifiedData.runtime.key
              \/ \E i \in 1..Len(last.unifiedData.records) :
                    k = last.unifiedData.runtime.key \o <<"/">> \o last.unifiedData.records[i].uid
        /\ last'.op = "Get" /\ last'.key = last.unifiedData.runtime.key
        /\ ~Failed(last'.calls))
       => (/\ last'.status = E_OK
           /\ last'.data.runtime = last.unifiedData.runtime
           /\ last'.data.records = last.unifiedData.records)]_vars

(***************************************************************************)
(* C2  Group isolation.  For distinct group keys G and G', Delete(G)       *)
(* removes no entry of G', and Get(G) returns no runtime block or record   *)
(* of G': what it returns was decoded from entries of G.                   *)
(***************************************************************************)
C2_GroupIsolation ==
    [][/\ (last'.op = "Delete" /\ last'.key \in UnifiedKeys)
          => \A g \in UnifiedKeys \ {last'.key} :
                \A k \in DOMAIN kvdb : InGroup(g, k) => k \in DOMAIN kvdb'
       /\ (last'.op = "Get" /\ last'.key \in UnifiedKeys)
          => /\ Len(last'.data.records) <= Cardinality(MemberKeys(last'.key, kvdb))
             /\ \A i \in 1..Len(last'.data.records) :
                   \E k \in MemberKeys(last'.key, kvdb) :
                      last'.data.records[i] = ReadingRecord(kvdb[k]).val
             /\ last'.data.runtime # NoRuntime
                => (/\ last'.key \in DOMAIN kvdb
                    /\ last'.data.runtime = ReadingRuntime(kvdb[last'.key]).val)]_vars

(***************************************************************************)
(* C3  Delete then get.  Whenever Delete(k) returns OK the store holds no  *)
(* entry whose key starts with k, and a Get(k) into an empty object right  *)
(* after it returns OK and leaves the object empty, whatever the engine    *)
(* calls inside Delete reported.                                           *)
(***************************************************************************)
C3_DeleteThenGet ==
    [][/\ (last'.op = "Delete" /\ last'.status = E_OK) => Under(last'.key, kvdb') = {}
       /\ (/\ last.op = "Delete" /\ last.status = E_OK
           /\ last'.op = "Get" /\ last'.key = last.key)
          => (last'.status = E_OK /\ last'.data = EmptyData)]_vars

PutBatchOf(unifiedData) ==
    LET recs == NonNull(unifiedData.records)
        key == unifiedData.runtime.key
    IN  [i \in 1..(Len(recs) + 1) |->
           IF i <= Len(recs)
           THEN [key |-> key \o <<"/">> \o recs[i].uid, value |-> WritingRecord(recs[i]).bytes]
           ELSE [key |-> key, value |-> WritingRuntime(unifiedData.runtime).bytes]]

C5_PutAllOrNothing ==
    [][last'.op = "Put" =>
         LET d == last'.unifiedData
             recFail == \E i \in 1..Len(d.records) :
                           ~IsNull(d.records[i]) /\ ~d.records[i].valid
         IN  /\ Len(last'.calls) <= 1
             /\ recFail => (/\ last'.status = E_INVALID_PARAMETERS
                            /\ last'.calls = <<>> /\ kvdb' = kvdb)
             /\ (~recFail /\ ~d.runtime.valid)
                => (last'.status = E_UNKNOWN /\ last'.calls = <<>> /\ kvdb' = kvdb)
             /\ (~recFail /\ d.runtime.valid)
                => (/\ Len(last'.calls) = 1
                    /\ last'.calls[1].fn = "PutBatch"
                    /\ last'.calls[1].entries = PutBatchOf(d)
                    /\ last'.status = IF last'.calls[1].status = DB_OK
                                      THEN E_OK ELSE E_DB_ERROR
                    /\ last'.calls[1].status # DB_OK => kvdb' = kvdb)]_vars

\* a Put that failed on its second record, after a first one that encoded,
\* on a store that already holds entries
C5_Witness ==
    /\ last.op = "Put" /\ last.status = E_INVALID_PARAMETERS
    /\ Len(last.unifiedData.records) = 2 /\ last.unifiedData.records[1].valid
    /\ kvdb # <<>>

(***************************************************************************)
(* C6  Update is Delete then Put.  For every UnifiedData d and every       *)
(* outcome of the engine calls, Update(d) leaves the store, makes the      *)
(* engine calls and succeeds exactly as Delete(d's key) followed, if and   *)
(* only if that Delete returned OK, by Put(d): it returns OK iff both did. *)
(***************************************************************************)
\* Delete(key) then, if it returned OK, Put(unifiedData)
PutAfter(del, put) ==
    [ok |-> put.status = E_OK, store |-> put.store, calls |-> del.calls \o put.calls]

DeleteThenPut(unifiedData, del, okPut) ==
    IF del.status # E_OK
    THEN [ok |-> FALSE, store |-> del.store, calls |-> del.calls]
    ELSE PutAfter(del, Put(del.store, unifiedData, okPut))

SameAs(seq, store, status, calls) ==
    /\ store = seq.store
    /\ calls = seq.calls
    /\ (status = E_OK) <=> seq.ok

C6_UpdateIsDeleteThenPut ==
    [][last'.op = "Update" =>
         \E okScan \in BOOLEAN, okDel \in BOOLEAN, okPut \in BOOLEAN :
            SameAs(DeleteThenPut(last'.unifiedData,
                       Delete(kvdb, last'.unifiedData.runtime.key, okScan, okDel), okPut),
                   kvdb', last'.status, last'.calls)]_vars

\* an Update that replaced a stored object: scan, batch delete, batch put
C6_Witness ==
    /\ last.op = "Update" /\ last.status = E_OK
    /\ Len(last.calls) = 3
    /\ last.calls[2].keys # <<>>
    /\ last.unifiedData.records # <<>>

(***************************************************************************)
(* C7  Summary additivity.  When GetSummary(key, summary) returns OK, the  *)
(* total size it reports is the sum of the sizes of the records stored     *)
(* under key, and the per-kind sizes it reports sum to that total.         *)
(***************************************************************************)
C7_SummaryAdditivity ==
    (last.op = "GetSummary" /\ last.status = E_OK)
    => (/\ last.summary.totalSize = StoredSizes(last.key, kvdb)
        /\ SumFun(last.summary.summary, DOMAIN last.summary.summary)
           = last.summary.totalSize)

(***************************************************************************)
(* C8  GetDatas segment filter.  GetDatas(prefix) returns one UnifiedData  *)
(* for each scanned entry whose key holds exactly four '/', in scan order: *)
(* what the inner Get on that key read, whether or not that Get returned   *)
(* OK.  An entry whose key holds five '/' gives no element.                *)
(***************************************************************************)
Scanned(store, prefix) == SelectSeq(KeyOrder, LAMBDA k : k \in Under(prefix, store))

FourSlashes(keys) == SelectSeq(keys, LAMBDA k : CountSlash(k) = 4)

C8_GetDatasSegmentFilter ==
    [][last'.op = "GetDatas" =>
         LET groups == IF last'.calls[1].status = DB_ERROR THEN <<>>
                       ELSE FourSlashes(Scanned(kvdb, last'.dataPrefix))
         IN  /\ Len(last'.datas) = Len(groups)
             /\ Len(last'.gets) = Len(groups)
             /\ \A i \in 1..Len(groups) :
                   /\ last'.gets[i].key = groups[i]
                   /\ \E okScan \in BOOLEAN :
                         /\ last'.datas[i] = Get(kvdb, groups[i], EmptyData, okScan).data
                         /\ last'.gets[i].status = Get(kvdb, groups[i], EmptyData, okScan).status]_vars

\* two groups returned, one of them by an inner Get that failed, from a scan
\* that also met a member key
C8_Witness ==
    /\ last.op = "GetDatas" /\ Len(last.datas) = 2
    /\ \E i \in 1..2 : last.gets[i].status # E_OK /\ last.datas[i] # EmptyData
    /\ \E k \in Under(last.dataPrefix, kvdb) : CountSlash(k) = 5

(***************************************************************************)
(* C9  No engine error becomes OK.  A Get, Delete, DeleteBatch or Clear    *)
(* during which an engine call reported a failure does not return OK.      *)
(***************************************************************************)
C9_NoEngineErrorBecomesOk ==
    (last.op \in {"Get", "Delete", "DeleteBatch", "Clear"} /\ Failed(last.calls))
    => last.status # E_OK

(***************************************************************************)
(* C10  Handle released exactly once.  CloseKvStore is never called on a   *)
(* handle that is already released, and once the store is destroyed it has *)
(* been called exactly once for every handle acquired.                     *)
(***************************************************************************)
Releases(handle) == Cardinality({i \in 1..Len(closeLog) : closeLog[i] = handle})

C10_ReleasedExactlyOnce ==
    /\ \A handle \in 1..handles : Releases(handle) <= 1
    /\ phase = "destroyed" => \A handle \in 1..handles : Releases(handle) = 1

(***************************************************************************)
(* C11  Close is idempotent and safe without Init.  A Close called while   *)
(* the store holds no open handle, because no Init has succeeded or        *)
(* because an earlier Close released it, makes no release request to the   *)
(* engine and changes nothing.                                             *)
(***************************************************************************)
C11_CloseIdempotent ==
    [][(last'.op = "Close" /\ kvStore_ \notin opened)
       => (closeLog' = closeLog /\ opened' = opened /\ phase' = phase)]_vars

(***************************************************************************)
(* C12  Clear empties the namespace.  Whenever Clear returns OK the store  *)
(* holds no entry whose key starts with "udmf://", and a GetDatas right    *)
(* after it returns an empty sequence; Clear returns DbError only when the *)
(* engine's batch delete failed.                                           *)
(***************************************************************************)
C12_ClearEmptiesNamespace ==
    [][/\ (last'.op = "Clear" /\ last'.status = E_OK)
          => Under(DATA_PREFIX, kvdb') = {}
       /\ (last'.op = "Clear" /\ last'.status = E_DB_ERROR)
          => Failed(CallsOf("DeleteBatch", last'.calls))
       /\ (last.op = "Clear" /\ last.status = E_OK /\ last'.op = "GetDatas")
          => last'.datas = <<>>]_vars

(***************************************************************************)
(* C13  Lifecycle guard.  A data operation invoked while the store holds   *)
(* no open handle, before a successful Init or after Close, is reported as *)
(* an error and makes no engine call; no operation goes through a null or  *)
(* released handle.                                                        *)
(***************************************************************************)
C13_LifecycleGuard ==
    [][/\ last'.op # "Fault"
       /\ (last'.op \in {"Put", "Get", "Delete"} /\ kvStore_ \notin opened)
          => (last'.status # E_OK /\ last'.calls = <<>>)]_vars

(***************************************************************************)
(* C14  Sync is fire-and-forget.  Sync returns OK exactly when the engine  *)
(* accepts the request and DbError otherwise, and writes nothing.  The     *)
(* completion callback, whenever the engine runs it and whatever outcome   *)
(* it delivers, changes no status returned, no entry of the store and      *)
(* nothing of the handle: it does not go through kvStore_.                 *)
(***************************************************************************)
Completed(before, after) ==
    /\ Len(after) = Len(before)
    /\ \E i \in 1..Len(before) : before[i] = "pending" /\ after[i] # "pending"

C14_SyncFireAndForget ==
    [][/\ (last'.op = "Sync" /\ ~Completed(syncs, syncs'))
          => /\ Len(last'.calls) = 1
             /\ last'.status = IF last'.calls[1].status = DB_OK THEN E_OK ELSE E_DB_ERROR
             /\ (last'.status = E_OK) <=> (Len(syncs') = Len(syncs) + 1)
             /\ kvdb' = kvdb
       /\ Completed(syncs, syncs')
          => UNCHANGED <<kvdb, last, kvStore_, handles, opened, closeLog, closes, phase>>]_vars

\* a callback that ran after the store was closed, and one that ran after it
\* was destroyed, with entries in the store
C14_Witness ==
    /\ phase = "destroyed"
    /\ kvdb # <<>>
    /\ kvStore_ \notin opened
    /\ \E i \in 1..Len(syncs) : syncs[i] = "destroyed"

(***************************************************************************)
(* C15  Read error propagation.  Get returns Unknown at the first scanned  *)
(* entry that fails to decode, with the entries before it placed in the    *)
(* output object, and OK with all of them placed if none fails.            *)
(* GetSummary returns DbError whenever its Get returns non-OK, and then    *)
(* leaves the caller's summary as it was passed in.                        *)
(***************************************************************************)
\* the entry at k decodes as Get(key) reads it
Readable(key, k, store) ==
    IF k = key THEN ReadingRuntime(store[k]).ok ELSE ReadingRecord(store[k]).ok

\* the keys before the first one that does not decode
GoodPrefix(key, keys, store) ==
    LET bad == {i \in 1..Len(keys) : ~Readable(key, keys[i], store)}
    IN  IF bad = {} THEN keys
        ELSE SubSeq(keys, 1, (CHOOSE i \in bad : \A j \in bad : i <= j) - 1)

\* the object holding the entries at keys
Placed(key, keys, store) ==
    LET members == SelectSeq(keys, LAMBDA k : k # key)
    IN  [runtime |-> IF \E i \in 1..Len(keys) : keys[i] = key
                     THEN ReadingRuntime(store[key]).val ELSE NoRuntime,
         records |-> [i \in 1..Len(members) |-> ReadingRecord(store[members[i]]).val]]

\* the keys the scan of a call handed to Get
ScanOf(calls, store, key) == IF Failed(calls) THEN <<>> ELSE Scanned(store, key)

C15_ReadErrorPropagation ==
    [][/\ last'.op = "Get"
          => LET scanned == ScanOf(last'.calls, kvdb, last'.key)
                 good == GoodPrefix(last'.key, scanned, kvdb)
             IN  /\ last'.data = Placed(last'.key, good, kvdb)
                 /\ last'.status = IF good = scanned THEN E_OK ELSE E_UNKNOWN
       /\ last'.op = "GetSummary"
          => LET scanned == ScanOf(last'.calls, kvdb, last'.key)
                 good == GoodPrefix(last'.key, scanned, kvdb)
             IN  /\ last'.status = IF good = scanned THEN E_OK ELSE E_DB_ERROR
                 /\ good # scanned => last'.summary = last'.passed]_vars

\* a Get that returned Unknown after it had placed a runtime block and a record
C15_Witness ==
    /\ last.op = "Get" /\ last.status = E_UNKNOWN
    /\ last.data.runtime # NoRuntime
    /\ last.data.records # <<>>

(***************************************************************************)
(* C18  Entry count.  A successful Put(d) on a store with no entry under   *)
(* d's group key leaves exactly 1 + |records| entries under that key, the  *)
(* runtime entry at the group key and one member entry per element of the  *)
(* record sequence, duplicates and null records included.                  *)
(***************************************************************************)
C18_EntryCount ==
    [][(/\ last'.op = "Put" /\ last'.status = E_OK
        /\ Under(last'.unifiedData.runtime.key, kvdb) = {})
       => LET key == last'.unifiedData.runtime.key
          IN  /\ key \in DOMAIN kvdb'
              /\ Cardinality(Under(key, kvdb')) = 1 + Len(last'.unifiedData.records)
              /\ Cardinality(MemberKeys(key, kvdb')) = Len(last'.unifiedData.records)]_vars

(***************************************************************************)
(* C19  Encode failure through Update.  If Update(d) fails because a       *)
(* record or the runtime block of d does not encode, no engine write or    *)
(* delete has been issued and the store is as it was before the call.      *)
(***************************************************************************)
\* the codec refuses a record or the runtime block of the object
EncodeFails(unifiedData) ==
    \/ ~unifiedData.runtime.valid
    \/ \E i \in 1..Len(unifiedData.records) :
          ~IsNull(unifiedData.records[i]) /\ ~unifiedData.records[i].valid

C19_EncodeFailureBeforeWrite ==
    [][(/\ last'.op = "Update" /\ last'.status # E_OK
        /\ EncodeFails(last'.unifiedData)
        /\ ~Failed(CallsOf("DeleteBatch", last'.calls)))
       => /\ CallsOf("DeleteBatch", last'.calls) = <<>>
          /\ CallsOf("PutBatch", last'.calls) = <<>>
          /\ kvdb' = kvdb]_vars

(***************************************************************************)
(* C20  Put does not replace, only Update does.  A successful Put(d2)      *)
(* overwrites the entries it writes and removes nothing, and a following   *)
(* Get of the group key returns d2's runtime with the records of the       *)
(* group's member entries (d2's and the earlier ones d2 did not            *)
(* overwrite); after a successful Update(d2) the entries under the group   *)
(* key are exactly those of d2.                                            *)
(***************************************************************************)
\* the records held by the member entries of a group
MemberRecords(group, store) ==
    {ReadingRecord(store[k]).val : k \in MemberKeys(group, store)}

\* the entries of the store that belong to a group
GroupEntries(group, store) ==
    {[key |-> k, value |-> store[k]] : k \in {x \in DOMAIN store : InGroup(group, x)}}

C20_PutKeepsUpdateReplaces ==
    [][/\ (last'.op = "Put" /\ last'.status = E_OK)
          => /\ DOMAIN kvdb \subseteq DOMAIN kvdb'
             /\ kvdb' = ApplyPuts(kvdb, PutBatchOf(last'.unifiedData))
       /\ (/\ last.op = "Put" /\ last.status = E_OK
           /\ last'.op = "Get" /\ last'.key = last.unifiedData.runtime.key)
          => /\ last'.status = E_OK
             /\ last'.data.runtime = last.unifiedData.runtime
             /\ {last'.data.records[i] : i \in 1..Len(last'.data.records)}
                  = MemberRecords(last'.key, kvdb)
       /\ (last'.op = "Update" /\ last'.status = E_OK)
          => GroupEntries(last'.unifiedData.runtime.key, kvdb')
               = {PutBatchOf(last'.unifiedData)[i] :
                    i \in 1..Len(PutBatchOf(last'.unifiedData))}]_vars

(***************************************************************************)
(* C16  Concurrent read during Update.  While Update(d) on group key G is  *)
(* between its steps, a Get(G) by another caller returns the complete old  *)
(* object, an empty object, or the complete new object d, and never a      *)
(* mixture of old and new entries or a proper subset of an object's.       *)
(***************************************************************************)
\* the store holding the entries of unifiedData and nothing else
StoreOf(unifiedData) == ApplyPuts(<<>>, PutBatchOf(unifiedData))

\* what Get(key) may return while Update(unifiedData) runs on a store that
\* was old when it began
OldEmptyOrNew(old, key, unifiedData) ==
    {Get(old, key, EmptyData, TRUE).data, EmptyData}
      \cup (IF EncodeFails(unifiedData) THEN {}
            ELSE {Get(StoreOf(unifiedData), key, EmptyData, TRUE).data})

C16_ReadDuringUpdate ==
    [][(/\ last'.op = "Get" /\ call' = call
        /\ call.op = "Update" /\ call.pc # "idle"
        /\ last'.key = call.key)
       => last'.data \in OldEmptyOrNew(call.old, call.key, call.unifiedData)]_vars

(***************************************************************************)
(* C17  Objects never partially exist.  In every reachable state of the KV *)
(* store, the states between the engine steps of concurrent calls on the   *)
(* same group key included, every member entry is accompanied by the       *)
(* runtime entry of its group.                                             *)
(***************************************************************************)
C17_NoOrphans ==
    \A group \in UnifiedKeys : MemberKeys(group, kvdb) # {} => group \in DOMAIN kvdb

====
